---- MODULE Spec2Model ----
(***************************************************************************)
(* Model of run_simulation.py: a Trotterised transverse-field Ising chain  *)
(* whose circuit is grown by one Trotter step per animation frame, sampled *)
(* through a measured copy, reduced to per-site magnetisations and         *)
(* recorded as a time series, driven by FuncAnimation.save.                *)
(*                                                                         *)
(* Units.  Rotation angles are counted in quarter turns (multiples of      *)
(* pi/2), so every amplitude is a Gaussian integer divided by a power of   *)
(* sqrt(2) and gate application is exact.  coupling_J and field_h are      *)
(* counted in units of pi/(4*time_step), so that the angle the code passes *)
(* to rz, 2*coupling_J*time_step, is coupling_J quarter turns (likewise    *)
(* field_h for rx).  Times are counted in units of 1/total_frames, so that *)
(* time_step = total_time/total_frames is the integer total_time.          *)
(* Probabilities and magnetisations are counted in units of 1/shots.       *)
(***************************************************************************)
EXTENDS Integers, Sequences, FiniteSets

VARIABLES
    num_qubits,             \* line 18: number of sites
    coupling_J,             \* line 19: interaction strength
    field_h,                \* line 20: transverse field strength
    circuits,               \* the QuantumCircuit objects, by reference
    base_circuit,           \* line 77: reference to the persisted circuit
    qc_measure,             \* line 90: reference to the last measured copy
    job,                    \* line 94: the last sampler job, with the state it simulated
    spin_colors,            \* line 100/111: the array last given to spins.set_array
    history_times,          \* line 74
    history_magnetization,  \* line 75
    frame,                  \* next index of the frame sequence of ani.save
    pc                      \* position of the script in lines 125-131

vars == << num_qubits, coupling_J, field_h, circuits, base_circuit, qc_measure, job,
           spin_colors, history_times, history_magnetization, frame, pc >>

(***************************************************************************)
(* Bounds of the model and constants of the program.                       *)
(***************************************************************************)
\* num_qubits ranges over 1 .. MaxQubits (line 18 sets 4)
MaxQubits == 3

\* coupling_J and field_h range over 0 .. MaxStrength quarter turns per step
MaxStrength == 1

\* the number of frames of the animation (lines 23-25 give 150)
MaxFrames == 2

\* the shots of one sampler run (line 94 asks for 1024)
shots == 2

total_time == 10

\* line 25: int(total_time * fps)
total_frames == MaxFrames

time_step == total_time

NoCircuit == "none"

\* no job yet: nothing simulated, nothing drawn
NoJob == [statevector |-> [amp |-> << >>, scale |-> 0], shots |-> 0]

Sites == 0 .. num_qubits - 1

(***************************************************************************)
(* Circuit instructions, as the QuantumCircuit methods append them.        *)
(***************************************************************************)
Gate(name, qubits, angle) == [name |-> name, qubits |-> qubits, angle |-> angle]

x(q) == Gate("x", << q >>, 0)

cx(c, t) == Gate("cx", << c, t >>, 0)

rz(theta, q) == Gate("rz", << q >>, theta)

rx(theta, q) == Gate("rx", << q >>, theta)

barrier == Gate("barrier", << >>, 0)

measure(q) == Gate("measure", << q >>, 0)

\* 2 * coupling_J * time_step and 2 * field_h * time_step, in quarter turns.
CouplingAngle == coupling_J % 8

FieldAngle == field_h % 8

\* lines 77-79
InitialCircuit == << x(0), barrier >>

(***************************************************************************)
(* create_trotter_step, lines 31-44: the two loops append to the circuit.  *)
(***************************************************************************)
\* a coupling layer closed into a ring: one more bond, (N-1, 0)
RECURSIVE CouplingLoopPeriodic(_, _)
CouplingLoopPeriodic(circuit, i) ==
    IF i >= num_qubits THEN circuit
    ELSE CouplingLoopPeriodic(
             circuit \o << cx(i, (i + 1) % num_qubits),
                           rz(CouplingAngle, (i + 1) % num_qubits),
                           cx(i, (i + 1) % num_qubits) >>, i + 1)

\* a coupling layer that never disentangles
RECURSIVE CouplingLoopEntangled(_, _)
CouplingLoopEntangled(circuit, i) ==
    IF i >= num_qubits - 1 THEN circuit
    ELSE CouplingLoopEntangled(circuit \o << cx(i, i + 1), rz(CouplingAngle, i + 1) >>, i + 1)

RECURSIVE CouplingLoop(_, _)
CouplingLoop(circuit, i) ==
    IF i >= num_qubits - 1 THEN circuit
    ELSE CouplingLoop(circuit \o << cx(i, i + 1), rz(CouplingAngle, i + 1), cx(i, i + 1) >>,
                      i + 1)

\* a field layer that leaves out the last site
RECURSIVE FieldLoopShort(_, _)
FieldLoopShort(circuit, i) ==
    IF i >= num_qubits - 1 THEN circuit
    ELSE FieldLoopShort(Append(circuit, rx(FieldAngle, i)), i + 1)

RECURSIVE FieldLoop(_, _)
FieldLoop(circuit, i) ==
    IF i >= num_qubits THEN circuit
    ELSE FieldLoop(Append(circuit, rx(FieldAngle, i)), i + 1)

\* a step built on a fresh initial circuit instead of the circuit it is given
create_trotter_step_fresh(circuit) ==
    Append(FieldLoop(Append(CouplingLoop(InitialCircuit, 0), barrier), 0), barrier)

create_trotter_step(circuit) ==
    Append(FieldLoop(Append(CouplingLoop(circuit, 0), barrier), 0), barrier)

\* an assignment in place of the copy: both names refer to one circuit
copy_alias(ref) == ref

\* line 90: QuantumCircuit.copy returns a new object
copy(ref) == "copy"

RECURSIVE MeasureLoop(_, _)
MeasureLoop(circuit, i) ==
    IF i >= num_qubits THEN circuit
    ELSE MeasureLoop(Append(circuit, measure(i)), i + 1)

\* line 91: measure_all appends a barrier and one measurement per qubit, in place
measure_all(circuit) == MeasureLoop(Append(circuit, barrier), 0)

(***************************************************************************)
(* What the gates do to the state the sampler simulates.  A state is a     *)
(* vector of Gaussian integers over the basis indices 0 .. 2^N - 1 (qubit  *)
(* q is bit q of the index) together with the number of factors 1/sqrt(2)  *)
(* it is divided by.                                                       *)
(***************************************************************************)
RECURSIVE Pow2(_)
Pow2(n) == IF n = 0 THEN 1 ELSE 2 * Pow2(n - 1)

Basis == 0 .. Pow2(num_qubits) - 1

Bit(b, q) == (b \div Pow2(q)) % 2

Flip(b, q) == IF Bit(b, q) = 1 THEN b - Pow2(q) ELSE b + Pow2(q)

CMul(a, b) == << a[1] * b[1] - a[2] * b[2], a[1] * b[2] + a[2] * b[1] >>

CAdd(a, b) == << a[1] + b[1], a[2] + b[2] >>

\* exp(i*k*pi/4) for k = 0..7, times sqrt(2) when k is odd
PhaseTable == << << 1, 0 >>, << 1, 1 >>, << 0, 1 >>, << -1, 1 >>,
                 << -1, 0 >>, << -1, -1 >>, << 0, -1 >>, << 1, -1 >> >>

Phase(k) == PhaseTable[(k % 8) + 1]

Halves(theta) == theta % 2

\* The vector f, computed once (a function expression is otherwise recomputed
\* on every read of a component).
Vector(f) == IF f = << >> THEN << >> ELSE f

\* a common factor 2 is two factors sqrt(2)
RECURSIVE Reduce(_)
Reduce(psi) ==
    IF psi.scale >= 2 /\ \A b \in DOMAIN psi.amp : psi.amp[b][1] % 2 = 0 /\ psi.amp[b][2] % 2 = 0
    THEN Reduce([amp |-> Vector([b \in DOMAIN psi.amp |->
                             << psi.amp[b][1] \div 2, psi.amp[b][2] \div 2 >>]),
                 scale |-> psi.scale - 2])
    ELSE psi

\* X on qubit q
ApplyX(psi, q) == [psi EXCEPT !.amp = Vector([b \in Basis |-> psi.amp[Flip(b, q)]])]

\* qubit t set, rather than flipped, where qubit c is 1
ApplyCXSet(psi, c, t) ==
    [psi EXCEPT !.amp = Vector([b \in Basis |->
        IF Bit(b, c) = 0 THEN psi.amp[b]
        ELSE IF Bit(b, t) = 1 THEN CAdd(psi.amp[b], psi.amp[Flip(b, t)])
        ELSE << 0, 0 >>])]

\* X on qubit t where qubit c is 1
ApplyCX(psi, c, t) ==
    [psi EXCEPT !.amp = Vector([b \in Basis |-> IF Bit(b, c) = 1 THEN psi.amp[Flip(b, t)]
                                                                 ELSE psi.amp[b]])]

\* exp(-i*theta/2*Z) on qubit q: diag(exp(-i*theta/2), exp(i*theta/2))
ApplyRZ(psi, theta, q) ==
    LET ground  == Phase(8 - theta)
        excited == Phase(theta)
    IN  Reduce([amp |-> Vector([b \in Basis |->
                            CMul(IF Bit(b, q) = 1 THEN excited ELSE ground, psi.amp[b])]),
                scale |-> psi.scale + Halves(theta)])

\* exp(-i*theta/2*X) on qubit q: cos(theta/2)*I - i*sin(theta/2)*X
ApplyRX(psi, theta, q) ==
    LET cos == << Phase(theta)[1], 0 >>
        sin == << 0, -Phase(theta)[2] >>
    IN  Reduce([amp |-> Vector([b \in Basis |->
                            CAdd(CMul(cos, psi.amp[b]), CMul(sin, psi.amp[Flip(b, q)]))]),
                scale |-> psi.scale + Halves(theta)])

ApplyGate(psi, g) ==
    CASE g.name = "x" -> ApplyX(psi, g.qubits[1])
      [] g.name = "cx" -> ApplyCX(psi, g.qubits[1], g.qubits[2])
      [] g.name = "rz" -> ApplyRZ(psi, g.angle, g.qubits[1])
      [] g.name = "rx" -> ApplyRX(psi, g.angle, g.qubits[1])
      [] OTHER -> psi    \* barrier; final measurements are sampled, not applied

ZeroState ==
    [amp |-> Vector([b \in Basis |-> IF b = 0 THEN << 1, 0 >> ELSE << 0, 0 >>]), scale |-> 0]

\* the instructions n, n+1, ... of the circuit, applied in order (the test of
\* psi.scale, never negative, has each state computed before the next gate)
RECURSIVE Run(_, _, _)
Run(psi, circuit, n) ==
    IF psi.scale >= 0 /\ n <= Len(circuit)
    THEN Run(ApplyGate(psi, circuit[n]), circuit, n + 1)
    ELSE psi

Statevector(circuit) == Run(ZeroState, circuit, 1)

(***************************************************************************)
(* sampler.run(qc_measure, shots) and binary_probabilities, lines 94-96:   *)
(* the outcome probabilities are the squared magnitudes of the simulated   *)
(* state of the whole circuit it is given; shots outcomes are drawn from   *)
(* them and returned as weights keyed by bitstrings, the highest qubit     *)
(* first.  Weights are in units of 1/shots.                                *)
(***************************************************************************)
Probability(psi, b) == psi.amp[b][1] * psi.amp[b][1] + psi.amp[b][2] * psi.amp[b][2]

Support(psi) == {b \in Basis : Probability(psi, b) > 0}

\* the multisets of n outcomes, as nondecreasing sequences of draws
RECURSIVE Multisets(_, _)
Multisets(outcomes, n) ==
    IF n = 0 THEN {<< >>}
    ELSE UNION {{<< b >> \o d : d \in Multisets({c \in outcomes : c >= b}, n - 1)} :
                   b \in outcomes}

Draws(psi) == Multisets(Support(psi), shots)

QuasiDist(d) ==
    [b \in {d[n] : n \in 1 .. shots} |-> Cardinality({n \in 1 .. shots : d[n] = b})]

BinaryKey(b) == [j \in 1 .. num_qubits |-> IF Bit(b, num_qubits - j) = 1 THEN "1" ELSE "0"]

binary_probabilities(quasi) ==
    [state \in {BinaryKey(b) : b \in DOMAIN quasi} |->
        quasi[CHOOSE b \in DOMAIN quasi : BinaryKey(b) = state]]

(***************************************************************************)
(* Data processing, lines 100-108.                                         *)
(***************************************************************************)
\* the key read without reversing it
NotReversed(state) == state

\* line 103: state[::-1]
Reversed(state) == [j \in 1 .. Len(state) |-> state[Len(state) + 1 - j]]

\* lines 104-108, for one item of prob_dist
Accumulate(colors, state, prob) ==
    LET reversed_state == Reversed(state)
    IN  [i \in Sites |-> IF reversed_state[i + 1] = "0" THEN colors[i] + prob
                                                        ELSE colors[i] - prob]

RECURSIVE ItemsLoop(_, _, _)
ItemsLoop(colors, prob_dist, todo) ==
    IF todo = {} THEN colors
    ELSE LET state == CHOOSE k \in todo : TRUE
         IN  ItemsLoop(Accumulate(colors, state, prob_dist[state]), prob_dist, todo \ {state})

\* the array of the previous frame reused instead of np.zeros
MagnetizationCarried(prob_dist) ==
    ItemsLoop(IF spin_colors = << >> THEN [i \in Sites |-> 0] ELSE spin_colors,
              prob_dist, DOMAIN prob_dist)

Magnetization(prob_dist) == ItemsLoop([i \in Sites |-> 0], prob_dist, DOMAIN prob_dist)

(***************************************************************************)
(* update(frame), lines 81-122.                                            *)
(***************************************************************************)
Update(f) ==
    LET evolved  == [circuits EXCEPT ![base_circuit] = create_trotter_step(@)]
        measured == copy(base_circuit)
        copied   == [r \in DOMAIN evolved \cup {measured} |->
                        IF r = measured THEN evolved[base_circuit] ELSE evolved[r]]
    IN  \E run \in {[copied EXCEPT ![measured] = measure_all(@)]} :
        \E psi \in {Statevector(run[measured])} :
        \E colors \in {Magnetization(binary_probabilities(QuasiDist(d))) : d \in Draws(psi)} :
            LET current_time == f * time_step
            IN  /\ circuits' = run
                /\ qc_measure' = measured
                /\ job' = [statevector |-> psi, shots |-> shots]
                /\ spin_colors' = colors
                /\ history_times' = Append(history_times, current_time)
                /\ history_magnetization' = Append(history_magnetization, colors[0])
                /\ UNCHANGED << base_circuit, num_qubits, coupling_J, field_h >>

(***************************************************************************)
(* The script's driver, lines 125-131.  ani.save first draws the initial   *)
(* frame: no init_func was given, so FuncAnimation draws it by calling     *)
(* update with the first item of the frame sequence; it then calls update  *)
(* once for each item of range(total_frames).                              *)
(***************************************************************************)
InitDraw ==
    /\ pc = "init_draw"
    /\ Update(0)
    /\ pc' = "frames"
    /\ UNCHANGED frame

SaveFrame ==
    /\ pc = "frames"
    /\ frame < total_frames
    /\ Update(frame)
    /\ frame' = frame + 1
    /\ UNCHANGED pc

Saved ==
    /\ pc = "frames"
    /\ frame = total_frames
    /\ pc' = "done"
    /\ UNCHANGED << num_qubits, coupling_J, field_h, circuits, base_circuit, qc_measure, job,
                    spin_colors, history_times, history_magnetization, frame >>

Init ==
    /\ num_qubits \in 1 .. MaxQubits
    /\ coupling_J \in 0 .. MaxStrength
    /\ field_h \in 0 .. MaxStrength
    /\ base_circuit = "base"
    /\ circuits = [r \in {"base"} |-> InitialCircuit]
    /\ qc_measure = NoCircuit
    /\ job = NoJob
    /\ spin_colors = << >>
    /\ history_times = << >>
    /\ history_magnetization = << >>
    /\ frame = 0
    /\ pc = "init_draw"

Next == InitDraw \/ SaveFrame \/ Saved

Spec == Init /\ [][Next]_vars

(***************************************************************************)
(* Properties.                                                             *)
(***************************************************************************)
Calls == Len(history_times)

Persisted == circuits[base_circuit]

\* the instructions of one Trotter step, written out by position
StepGates ==
    [n \in 1 .. 3 * (num_qubits - 1) |->
        LET i == (n - 1) \div 3
        IN  IF (n - 1) % 3 = 1 THEN [name |-> "rz", qubits |-> << i + 1 >>, angle |-> CouplingAngle]
            ELSE [name |-> "cx", qubits |-> << i, i + 1 >>, angle |-> 0]]
    \o << [name |-> "barrier", qubits |-> << >>, angle |-> 0] >>
    \o [n \in 1 .. num_qubits |-> [name |-> "rx", qubits |-> << n - 1 >>, angle |-> FieldAngle]]
    \o << [name |-> "barrier", qubits |-> << >>, angle |-> 0] >>

RECURSIVE Steps(_)
Steps(k) == IF k = 0 THEN << >> ELSE Steps(k - 1) \o StepGates

\* the state with amplitude 1 on the configuration b
BasisState(b) == [amp |-> [c \in Basis |-> IF c = b THEN << 1, 0 >> ELSE << 0, 0 >>], scale |-> 0]

\* C1: after k calls of update the persisted circuit is the initial configuration
\* (site 0 excited, all others ground) followed by exactly k Trotter steps.
C1_OneStepPerCall ==
    /\ Persisted = << [name |-> "x", qubits |-> << 0 >>, angle |-> 0],
                      [name |-> "barrier", qubits |-> << >>, angle |-> 0] >> \o Steps(Calls)
    /\ Statevector(SubSeq(Persisted, 1, 2)) = BasisState(1)

C1_Witness == Calls = MaxFrames + 1 /\ num_qubits = MaxQubits /\ pc = "done"

\* C2: sampling leaves the persisted circuit alone: the measurements are appended to a
\* distinct copy, the persisted circuit never holds a measurement, and the measured
\* copy is the persisted circuit followed by a barrier and one measurement per qubit.
C2_SamplingReadOnly ==
    qc_measure # NoCircuit =>
        /\ qc_measure # base_circuit
        /\ \A n \in DOMAIN Persisted : Persisted[n].name # "measure"
        /\ Len(circuits[qc_measure]) = Len(Persisted) + 1 + num_qubits
        /\ SubSeq(circuits[qc_measure], 1, Len(Persisted)) = Persisted
        /\ \A n \in Len(Persisted) + 2 .. Len(circuits[qc_measure]) :
               circuits[qc_measure][n].name = "measure"

C2_Witness == qc_measure # NoCircuit /\ Calls >= 2 /\ coupling_J = 1 /\ field_h = 1

\* C3 (as claimed): the two recorded sequences have equal length, and the i-th recorded
\* time is i times the time step, so that the times start at one time step and are
\* strictly increasing.
C3_RecordedTimes ==
    /\ Len(history_times) = Len(history_magnetization)
    /\ \A i \in DOMAIN history_times : history_times[i] = i * time_step
    /\ \A i \in DOMAIN history_times : \A j \in DOMAIN history_times :
           i < j => history_times[i] < history_times[j]

\* C4 (as claimed): at completion update has been called exactly total_frames times, no
\* frame index twice, so the recorder holds total_frames pairs and the persisted
\* circuit holds total_frames steps.
C4_ExactlyTotalFrames ==
    pc = "done" =>
        /\ Calls = total_frames
        /\ Len(history_magnetization) = total_frames
        /\ Persisted = InitialCircuit \o Steps(total_frames)
        /\ \A i \in DOMAIN history_times : \A j \in DOMAIN history_times :
               i # j => history_times[i] # history_times[j]

\* the s-th Trotter step (s = 0, 1, ...) of the persisted circuit
StepOf(s) == SubSeq(Persisted, 3 + s * Len(StepGates), 2 + (s + 1) * Len(StepGates))

CouplingNames == {"cx", "rz"}

\* C5: in every Trotter step the bonds come in increasing order as cx(i,i+1), rz(i+1),
\* cx(i,i+1); every coupling gate precedes every field gate; the field gates are one rx
\* per site; and no gate couples the pair (N-1, 0).
C5_GateOrder ==
    \A s \in 0 .. Calls - 1 :
        LET step == StepOf(s)
        IN  /\ \A i \in 0 .. num_qubits - 2 :
                   /\ step[3 * i + 1].name = "cx" /\ step[3 * i + 1].qubits = << i, i + 1 >>
                   /\ step[3 * i + 2].name = "rz" /\ step[3 * i + 2].qubits = << i + 1 >>
                   /\ step[3 * i + 2].angle = CouplingAngle
                   /\ step[3 * i + 3].name = "cx" /\ step[3 * i + 3].qubits = << i, i + 1 >>
            /\ \A m \in DOMAIN step : \A n \in DOMAIN step :
                   step[m].name \in CouplingNames /\ step[n].name = "rx" => m < n
            /\ \A i \in Sites :
                   Cardinality({n \in DOMAIN step :
                       step[n].name = "rx" /\ step[n].qubits = << i >>
                           /\ step[n].angle = FieldAngle}) = 1
            /\ Cardinality({n \in DOMAIN step : step[n].name = "rx"}) = num_qubits
            /\ Cardinality({n \in DOMAIN step : step[n].name \in CouplingNames})
                   = 3 * (num_qubits - 1)
            /\ \A n \in DOMAIN step : step[n].qubits # << num_qubits - 1, 0 >>

C5_Witness == Calls >= 2 /\ num_qubits >= 3

\* the estimate of site i from the draws d: +1 for each draw whose key has '0' at
\* position N-1-i (counted from 0 at the left), -1 for each whose key has '1' there
SignedSum(d, i) ==
    LET RECURSIVE Sum(_)
        Sum(n) == IF n = 0 THEN 0
                  ELSE (IF BinaryKey(d[n])[num_qubits - i] = "0" THEN 1 ELSE -1) + Sum(n - 1)
    IN  Sum(Len(d))

\* C6: the magnetisation of site i is the signed sum of the weights of the sampled
\* configurations by the character at position N-1-i of the key (site 0 rightmost);
\* with zero evolution site 0 estimates to -1 and every other site to +1.
C6_BitOrder ==
    qc_measure # NoCircuit =>
        /\ \E d \in Draws(job.statevector) :
               \A i \in Sites : spin_colors[i] = SignedSum(d, i)
        /\ coupling_J = 0 /\ field_h = 0 =>
               spin_colors = [i \in Sites |-> IF i = 0 THEN -shots ELSE shots]

C6_Witness ==
    /\ qc_measure # NoCircuit /\ num_qubits >= 2 /\ coupling_J = 0 /\ field_h = 0
    /\ spin_colors[0] = -shots /\ spin_colors[1] = shots

\* C7: every component of the magnetisation vector and every recorded value lies in
\* [-1, 1] (in units of 1/shots: in -shots .. shots).
C7_Range ==
    /\ \A i \in DOMAIN spin_colors : spin_colors[i] \in -shots .. shots
    /\ \A n \in DOMAIN history_magnetization : history_magnetization[n] \in -shots .. shots

C7_Witness ==
    /\ Calls >= 2
    /\ \E i \in DOMAIN spin_colors : spin_colors[i] = -shots
    /\ \E i \in DOMAIN spin_colors : spin_colors[i] \notin {-shots, shots}

\* C8: with coupling_J = 0 and field_h = 0 one Trotter step is the identity on every
\* basis state, and the state simulated after any number of steps is the initial state.
C8_ZeroLimit ==
    coupling_J = 0 /\ field_h = 0 =>
        /\ job # NoJob => job.statevector = BasisState(1)
        /\ \A b \in Basis : Run(BasisState(b), create_trotter_step(<< >>), 1) = BasisState(b)

C8_Witness == coupling_J = 0 /\ field_h = 0 /\ Calls >= 2 /\ num_qubits >= 2

NormSquared(psi) ==
    LET RECURSIVE Sum(_)
        Sum(b) == IF b < 0 THEN 0
                  ELSE psi.amp[b][1] * psi.amp[b][1] + psi.amp[b][2] * psi.amp[b][2] + Sum(b - 1)
    IN  Sum(Pow2(num_qubits) - 1)

ExecutedGates(circuit) ==
    Cardinality({n \in DOMAIN circuit : circuit[n].name \in {"x", "cx", "rz", "rx"}})

GatesPerStep == 3 * (num_qubits - 1) + num_qubits

====
